---- MODULE Spec2Model ----
(***************************************************************************)
(* Control logic of scripts/t_train_script.py: train() as a state machine. *)
(* One behaviour is a sequence of runs of train() on the same snapshot     *)
(* directory.  Persistent state (checkpoint files, train_record.json)      *)
(* survives from run to run; everything else is local to a run and is      *)
(* rebuilt by StartRun.                                                    *)
(*                                                                         *)
(* Opaque collaborators are abstracted by what train() observes of them:   *)
(*   - the model's weights and the optimizer state are version counters    *)
(*     (number of optimizer.step() calls / scheduler.step() calls that     *)
(*     shaped them);                                                       *)
(*   - the data loader is a fixed sequence of steps_per_epoch batches; the *)
(*     losses and accuracies of batch idx are fixed functions of idx and   *)
(*     of a per-run seed;                                                  *)
(*   - the progress bar and the ETA (lines 235-240) are display only.      *)
(***************************************************************************)
EXTENDS Integers, Sequences, FiniteSets

\* ---------------------------------------------------------------- bounds
\* Largest --epoch and --current-epoch value a run is started with.
MaxEpoch == 2
\* Number of runs of train() on the same snapshot directory.
MaxRuns == 2

\* ------------------------------------------------------------- constants
\* line 174: sample_freq = 1000
sample_freq == 1000

\* len(train_loader) of a run: a dataset too small for one reporting
\* interval, one of exactly sample_freq batches (interval 1) and one with an
\* interval of 2.
StepsChoices == {5, 1000, 2000}
\* --global-counter overrides given on the command line.
CounterChoices == {0, 7}
\* --schedule choices (line 64).
Schedules == {"step", "cyclic", "onecycle"}
\* --resume is compared with the string 'True' (line 122).
ResumeChoices == {"True", "False"}
\* Seeds of the data of a run (which losses the batches produce).
Seeds == {0}
SeedsOneRun == {0, 1}

\* The AverageMeter objects of train() (lines 91-97).
LossMeters == {"losses", "losses_meanMask", "losses_variationMask", "losses_ce"}
PrecMeters == {"top1", "top5"}
Meters == LossMeters \cup PrecMeters \cup {"batch_time"}

VARIABLES
    pc,                \* "idle" | "epoch" | "batch" | "done" | "finished" | "error"
    runs,              \* number of runs of train() started so far
    args,              \* the argparse namespace fields train() reads, after restore()
    seed,              \* which data this run's loader yields
    steps_per_epoch,   \* line 140
    total_epoch,       \* line 147
    global_counter,    \* line 148
    current_epoch,     \* line 149
    samples_interval,  \* line 175
    idx,               \* enumerate index of the next batch of the epoch (line 183)
    meters,            \* the AverageMeter objects: name -> [sum, count]
    weights,           \* model.attn_mech.state_dict(): version of the weights
    optimizer,         \* optimizer.state_dict(): [updates, lr]
    optimizer_steps,   \* optimizer.step() calls of this run (line 214)
    scheduler_steps,   \* scheduler.step() calls of this run (lines 218, 279)
    checkpoints_written, \* save_checkpoint() calls of this run (line 269)
    writer,            \* the SummaryWriter: purge_step, events written, their steps
    window,            \* batches (idx) accumulated since the loss meters were last reset
    flushed,           \* window of the last log flush
    ckpt,              \* snapshot directory: N -> contents of epoch_<N>.pt
    train_record       \* number of dumps in train_record.json

vars == <<pc, runs, args, seed, steps_per_epoch, total_epoch, global_counter,
          current_epoch, samples_interval, idx, meters, weights, optimizer,
          optimizer_steps, scheduler_steps, checkpoints_written, writer,
          window, flushed, ckpt, train_record>>

\* ------------------------------------------------------------ AverageMeter
\* utilities/avg_meter.py is not among the sources; modelled from spec 4.5.
EmptyMeter == [sum |-> 0, count |-> 0]

MeterUpdate(m, val, n) == [sum |-> m.sum + val * n, count |-> m.count + n]

\* average = sum / count, kept exact as the pair <<sum, count>>.
MeterAvg(m) == <<m.sum, m.count>>

\* ----------------------------------------------------------------- data
\* imgs.size()[0]: the batch size; the last batch of the loader is smaller.
BatchSize(i, S) == IF i = S - 1 THEN 1 ELSE 2

\* lines 189-205, 220-221: forward pass, loss components and accuracies of
\* batch i, as the values train() passes to the meters.
Forward(sd, i) ==
    LET ce == ((i + sd) % 3) + 1
        mean == 1
        variation == (i + sd) % 2
    IN  [losses |-> ce + mean + variation,
         losses_ce |-> ce,
         losses_meanMask |-> mean,
         losses_variationMask |-> variation,
         top1 |-> (i + sd) % 2,
         top5 |-> 1]

\* ------------------------------------------------------------- checkpoints
Files == DOMAIN ckpt

\* The state with the step counter of the epoch's start left in it.
CheckpointStateStale(e, g, w, o) ==
    [epoch |-> e, global_counter |-> g - steps_per_epoch, state_dict |-> w, optimizer |-> o]

\* lines 270-275: the state handed to save_checkpoint.
CheckpointState(e, g, w, o) ==
    [epoch |-> e, global_counter |-> g, state_dict |-> w, optimizer |-> o]

\* lines 71-73, 276: torch.save(state, <snapshot_dir>/epoch_<n>.pt) creates or
\* replaces that file and leaves the others alone.
save_checkpoint(dir, state, n) ==
    [m \in (DOMAIN dir) \cup {n} |-> IF m = n THEN state ELSE dir[m]]

\* utilities/restore.py is not among the sources; modelled from spec 4.3:
\* loads (epoch, global step, weights, optimizer state) of checkpoint n into
\* args, the model and the optimizer.
restore(a, w, o, n) ==
    [args |-> [a EXCEPT !.current_epoch = ckpt[n].epoch,
                        !.global_counter = ckpt[n].global_counter],
     weights |-> ckpt[n].state_dict,
     optimizer |-> ckpt[n].optimizer]

\* The loop test off by one.
LoopTestInclusive(ce, te) == ce <= te

\* line 165: while current_epoch < total_epoch
LoopTest(ce, te) == ce < te

\* The test of line 124 written as "already past the total".
TrainingFinishedPast(a) == a.current_epoch > a.epoch

\* line 124: if args.current_epoch == args.epoch
TrainingFinished(a) == a.current_epoch = a.epoch

\* train_record.json opened with 'w': the dump replaces the file.
WriteRecord(n) == 1

\* lines 142-145: open(train_record.json, 'a'); write one dump.
AppendRecord(n) == n + 1

\* The seed taken from the epoch after the current one.
PurgeStepNext(S, e) == S * (e + 1)

\* line 162: purge_step = steps_per_epoch * current_epoch
PurgeStep(S, e) == S * e

\* line 175: samples_interval = int(steps_per_epoch / sample_freq)
SamplesInterval(S) == S \div sample_freq

\* The guard of line 216 left out: every schedule advances per batch.
StepsInBatchAlways(sched) == 1

\* line 216: a per-step schedule advances in the batch loop.
StepsInBatch(sched) == IF sched # "step" THEN 1 ELSE 0

\* line 278: the step-decay schedule advances at the end of the epoch.
StepsAtEpochEnd(sched) == IF sched = "step" THEN 1 ELSE 0

\* lines 166-172: the resets at the start of an epoch.
ResetAll(ms) == [m \in Meters |-> EmptyMeter]

\* The resets after a flush with the accuracy meters forgotten.
ResetLossesOnly(ms) ==
    [m \in Meters |-> IF m \in LossMeters THEN EmptyMeter ELSE ms[m]]

\* lines 257-262: the resets after a log flush (batch_time is not reset).
ResetAfterFlush(ms) ==
    [m \in Meters |-> IF m \in LossMeters \cup PrecMeters THEN EmptyMeter ELSE ms[m]]

\* lines 222-230: every meter takes the batch's value, weighted by the batch
\* size; batch_time takes the elapsed time (one unit) with weight 1.
UpdateAll(ms, out, n) ==
    [m \in Meters |-> IF m = "batch_time" THEN MeterUpdate(ms[m], 1, 1)
                      ELSE MeterUpdate(ms[m], out[m], n)]

NoWriter == [purge_step |-> 0, count |-> 0, last_step |-> -1, prev_step |-> -1,
             Losses |-> [m \in LossMeters |-> <<0, 0>>],
             Precision |-> [m \in PrecMeters |-> <<0, 0>>],
             LR |-> 0]

\* lines 242-256: the scalars of one log flush, keyed by global_step.  The
\* LR event carries the schedule's last learning rate (two values under
\* SGD, one under AdamW: the same position lr of the schedule).
AddScalars(wr, ms, step, lr) ==
    [wr EXCEPT !.count = wr.count + 1,
               !.prev_step = wr.last_step,
               !.last_step = step,
               !.Losses = [m \in LossMeters |-> MeterAvg(ms[m])],
               !.Precision = [m \in PrecMeters |-> MeterAvg(ms[m])],
               !.LR = lr]

\* ------------------------------------------------------------------- Init
NoArgs == [epoch |-> 0, current_epoch |-> 0, global_counter |-> 0,
           schedule |-> "step", resume |-> "False"]

Init ==
    /\ pc = "idle"
    /\ runs = 0
    /\ args = NoArgs
    /\ seed = 0
    /\ steps_per_epoch = 0
    /\ total_epoch = 0
    /\ global_counter = 0
    /\ current_epoch = 0
    /\ samples_interval = 0
    /\ idx = 0
    /\ meters = [m \in Meters |-> EmptyMeter]
    /\ weights = 0
    /\ optimizer = [updates |-> 0, lr |-> 0]
    /\ optimizer_steps = 0
    /\ scheduler_steps = 0
    /\ checkpoints_written = 0
    /\ writer = NoWriter
    /\ window = <<>>
    /\ flushed = <<>>
    /\ ckpt = <<>>
    /\ train_record = 0

\* ---------------------------------------------------------------- actions
\* lines 89-163 (and main, lines 282-288): a run of train() up to the epoch
\* loop.  cli is the parsed command line, S the length of the loader, sd the
\* data, n the checkpoint restore() finds (0: none).
Start(cli, S, sd, n) ==
    LET fresh == [args |-> cli, weights |-> 0, optimizer |-> [updates |-> 0, lr |-> 0]]
        r == IF cli.resume = "True" /\ n # 0 THEN restore(cli, 0, fresh.optimizer, n)
             ELSE fresh
        finished == cli.resume = "True" /\ TrainingFinished(r.args)
    IN  /\ runs' = runs + 1
        /\ args' = r.args
        /\ weights' = r.weights
        /\ optimizer' = r.optimizer
        /\ meters' = [m \in Meters |-> EmptyMeter]
        /\ optimizer_steps' = 0
        /\ scheduler_steps' = 0
        /\ checkpoints_written' = 0
        /\ idx' = 0
        /\ samples_interval' = 0
        /\ window' = <<>>
        /\ flushed' = <<>>
        /\ UNCHANGED ckpt
        /\ IF finished
           THEN /\ pc' = "finished"
                /\ seed' = 0
                /\ steps_per_epoch' = 0
                /\ total_epoch' = 0
                /\ global_counter' = 0
                /\ current_epoch' = 0
                /\ writer' = NoWriter
                /\ UNCHANGED train_record
           ELSE /\ pc' = "epoch"
                /\ seed' = sd
                /\ steps_per_epoch' = S
                /\ train_record' = AppendRecord(train_record)
                /\ total_epoch' = r.args.epoch
                /\ global_counter' = r.args.global_counter
                /\ current_epoch' = r.args.current_epoch
                /\ writer' = [NoWriter EXCEPT !.purge_step = PurgeStep(S, r.args.current_epoch)]

StartRun(StepsSet, SeedSet, RunBound) ==
    /\ pc \in {"idle", "done", "finished", "error"}
    /\ runs < RunBound
    /\ \E e \in 0..MaxEpoch, ce \in 0..MaxEpoch, g \in CounterChoices,
          sched \in Schedules, res \in ResumeChoices,
          S \in StepsSet, sd \in SeedSet, n \in Files \cup {0} :
          \* restore() finds a checkpoint whenever the directory holds one
          /\ (n = 0) <=> (Files = {} \/ res # "True")
          /\ Start([epoch |-> e, current_epoch |-> ce, global_counter |-> g,
                    schedule |-> sched, resume |-> res], S, sd, n)

\* lines 165-182: the loop test passes; the head of the epoch.
EpochBegin ==
    /\ pc = "epoch"
    /\ LoopTest(current_epoch, total_epoch)
    /\ pc' = "batch"
    /\ meters' = ResetAll(meters)
    /\ samples_interval' = SamplesInterval(steps_per_epoch)
    /\ idx' = 0
    /\ window' = <<>>
    /\ UNCHANGED <<runs, args, seed, steps_per_epoch, total_epoch, global_counter,
                   current_epoch, weights, optimizer, optimizer_steps,
                   scheduler_steps, checkpoints_written, writer, flushed, ckpt,
                   train_record>>

\* lines 183-264: one batch.  global_counter % samples_interval raises
\* ZeroDivisionError when samples_interval is 0; nothing catches it.
TrainBatch ==
    /\ pc = "batch"
    /\ idx < steps_per_epoch
    /\ LET out == Forward(seed, idx)
           n == BatchSize(idx, steps_per_epoch)
           adv == StepsInBatch(args.schedule)
           updated == UpdateAll(meters, out, n)
           opt == [updates |-> optimizer.updates + 1, lr |-> optimizer.lr + adv]
       IN  /\ weights' = weights + 1
           /\ optimizer' = opt
           /\ optimizer_steps' = optimizer_steps + 1
           /\ scheduler_steps' = scheduler_steps + adv
           /\ IF samples_interval = 0
              THEN /\ pc' = "error"
                   /\ meters' = updated
                   /\ window' = Append(window, idx)
                   /\ UNCHANGED <<global_counter, idx, writer, flushed>>
              ELSE /\ pc' = "batch"
                   /\ idx' = idx + 1
                   /\ global_counter' = global_counter + 1
                   /\ IF global_counter % samples_interval = 0
                      THEN /\ writer' = AddScalars(writer, updated, global_counter, opt.lr)
                           /\ meters' = ResetAfterFlush(updated)
                           /\ flushed' = Append(window, idx)
                           /\ window' = <<>>
                      ELSE /\ meters' = updated
                           /\ window' = Append(window, idx)
                           /\ UNCHANGED <<writer, flushed>>
    /\ UNCHANGED <<runs, args, seed, steps_per_epoch, total_epoch, current_epoch,
                   samples_interval, checkpoints_written, ckpt, train_record>>

\* lines 266-279: the loader is exhausted; the end of the epoch.
EpochEnd ==
    /\ pc = "batch"
    /\ idx = steps_per_epoch
    /\ LET adv == StepsAtEpochEnd(args.schedule)
       IN  /\ current_epoch' = current_epoch + 1
           /\ ckpt' = save_checkpoint(ckpt,
                         CheckpointState(current_epoch + 1, global_counter, weights, optimizer),
                         current_epoch + 1)
           /\ checkpoints_written' = checkpoints_written + 1
           /\ scheduler_steps' = scheduler_steps + adv
           /\ optimizer' = [optimizer EXCEPT !.lr = optimizer.lr + adv]
    /\ pc' = "epoch"
    /\ UNCHANGED <<runs, args, seed, steps_per_epoch, total_epoch, global_counter,
                   samples_interval, idx, meters, weights, optimizer_steps, writer,
                   window, flushed, train_record>>

\* line 165: the loop test fails; train() returns.
LoopExit ==
    /\ pc = "epoch"
    /\ ~LoopTest(current_epoch, total_epoch)
    /\ pc' = "done"
    /\ UNCHANGED <<runs, args, seed, steps_per_epoch, total_epoch, global_counter,
                   current_epoch, samples_interval, idx, meters, weights, optimizer,
                   optimizer_steps, scheduler_steps, checkpoints_written, writer,
                   window, flushed, ckpt, train_record>>

Next ==
    \/ StartRun(StepsChoices, Seeds, MaxRuns)
    \/ EpochBegin
    \/ TrainBatch
    \/ EpochEnd
    \/ LoopExit

Spec == Init /\ [][Next]_vars

\* A single run of train(), with both data seeds.
NextOneRun ==
    \/ StartRun(StepsChoices, SeedsOneRun, 1)
    \/ EpochBegin
    \/ TrainBatch
    \/ EpochEnd
    \/ LoopExit

SpecOneRun == Init /\ [][NextOneRun]_vars

\* ================================================================= claims
\* The states in which a run of train() has passed the resume check.
InRun == pc \in {"epoch", "batch", "done", "error"}

\* The run has ended: by the loop test, or by an uncaught exception.
Ended == pc \in {"done", "error"}

Max(a, b) == IF a > b THEN a ELSE b

\* ---- C1 -----------------------------------------------------------------
\* C1: global_counter increases by exactly 1 for every processed batch, and
\* a run that starts from (e, g) counts on from g: at every point of a run
\* global_counter is the starting counter plus the number of batches the
\* run has processed (optimizer steps taken).
C1_CounterCountsBatches ==
    InRun => global_counter = args.global_counter + optimizer_steps

\* ---- C3 -----------------------------------------------------------------
\* C3: a run started from epoch 0 and global step 0 with E epochs of S >= 1
\* batches ends normally after exactly E * S optimizer steps and exactly E
\* checkpoint files.
C3_StepsAndCheckpoints ==
    (Ended /\ args.current_epoch = 0 /\ args.global_counter = 0 /\ steps_per_epoch >= 1)
        => /\ pc = "done"
           /\ optimizer_steps = total_epoch * steps_per_epoch
           /\ checkpoints_written = total_epoch

\* ---- C4 -----------------------------------------------------------------
\* C4: when resume is requested and the restored epoch equals the configured
\* total, the run returns at once: no batch, no optimizer step, no
\* checkpoint, no error.
C4_ResumeAtTotalDoesNothing ==
    (pc # "idle" /\ args.resume = "True" /\ args.current_epoch = args.epoch)
        => /\ pc = "finished"
           /\ optimizer_steps = 0
           /\ scheduler_steps = 0
           /\ checkpoints_written = 0
           /\ idx = 0
           /\ writer.count = 0

\* A second run restored epoch 1 and global step 1000 from epoch_1.pt of the
\* first and found training complete.
C4_Witness ==
    /\ pc = "finished"
    /\ runs = 2
    /\ args.resume = "True"
    /\ args.epoch = 1
    /\ 1 \in Files
    /\ ckpt[1].epoch = 1
    /\ args.global_counter = 1000

\* ---- C8 -----------------------------------------------------------------
\* C8: for every steps_per_epoch >= 1 the reporting interval is at least 1,
\* so that no batch fails on the modulo of line 234.
C8_IntervalAtLeastOne ==
    (pc \in {"batch", "error"} /\ steps_per_epoch >= 1)
        => /\ samples_interval >= 1
           /\ pc # "error"
\* ---- C2 -----------------------------------------------------------------
\* C2 as stated: whenever the epoch loop of a run has ended, current_epoch
\* equals the configured total epoch count.
C2_EndsAtTotal ==
    Ended => current_epoch = total_epoch

\* C2 as amended: current_epoch goes up by exactly 1 per completed epoch
\* (steps_per_epoch batches each), the loop body runs only below the total,
\* and the loop test ends the loop exactly when current_epoch >= total_epoch:
\* at the total for a run started at or below it, at the unchanged starting
\* epoch for a run started above it.
C2_EpochCursor ==
    InRun =>
        /\ current_epoch = args.current_epoch + checkpoints_written
        /\ pc = "batch"
              => optimizer_steps = checkpoints_written * steps_per_epoch + idx
        /\ pc \in {"epoch", "done"}
              => optimizer_steps = checkpoints_written * steps_per_epoch
        /\ pc \in {"batch", "error"} => current_epoch < total_epoch
        /\ pc = "done" => current_epoch = Max(args.current_epoch, total_epoch)

\* A run of two epochs from epoch 0 has left the loop at the total.
C2_Witness ==
    /\ pc = "done"
    /\ args.current_epoch = 0
    /\ total_epoch = 2
    /\ current_epoch = 2
    /\ optimizer_steps = 2 * steps_per_epoch

\* ---- C9 -----------------------------------------------------------------
\* The optimizer state a run started from: what it holds now less what the
\* run's own calls added.
StartLr == optimizer.lr - scheduler_steps
StartUpdates == optimizer.updates - optimizer_steps

RECURSIVE WindowSum(_, _)
\* Sum of value * batch size of meter m over the batches of window w.
WindowSum(w, m) ==
    IF w = <<>> THEN 0
    ELSE Forward(seed, Head(w))[m] * BatchSize(Head(w), steps_per_epoch)
         + WindowSum(Tail(w), m)

RECURSIVE WindowCount(_)
\* Sum of the batch sizes of the batches of window w.
WindowCount(w) ==
    IF w = <<>> THEN 0
    ELSE BatchSize(Head(w), steps_per_epoch) + WindowCount(Tail(w))

\* w is a run of consecutive batch indices, each once.
Consecutive(w) == \A k \in 1..(Len(w) - 1) : w[k + 1] = w[k] + 1

\* C10: the loss and accuracy meters hold exactly the batches processed
\* since the last flush (or the start of the epoch), each once, weighted by
\* its batch size; what a flush emitted is the weighted average over such a
\* window of at least one batch; and right after a flush the meters are
\* empty.
C10_WindowedAverage ==
    pc \in {"batch", "error"} =>
        /\ Consecutive(window)
        /\ \A m \in LossMeters \cup PrecMeters :
              meters[m] = [sum |-> WindowSum(window, m), count |-> WindowCount(window)]
        /\ window = <<>> => \A m \in LossMeters \cup PrecMeters : meters[m] = EmptyMeter
        /\ writer.count >= 1 =>
              /\ Len(flushed) >= 1
              /\ Consecutive(flushed)
              /\ WindowCount(flushed) >= 1
              /\ \A m \in LossMeters :
                    writer.Losses[m] = <<WindowSum(flushed, m), WindowCount(flushed)>>
              /\ \A m \in PrecMeters :
                    writer.Precision[m] = <<WindowSum(flushed, m), WindowCount(flushed)>>

\* A flush over a window of two batches (an interval of 2), after an
\* earlier flush, with the meters reset.
C10_Witness ==
    /\ pc = "batch"
    /\ writer.count >= 2
    /\ Len(flushed) = 2
    /\ window = <<>>
    /\ writer.Losses["losses"][2] = 4
    /\ meters["losses"] = EmptyMeter
\* ---- C5 -----------------------------------------------------------------
\* C5 as stated: a checkpoint file, once it exists, is never deleted and
\* never overwritten, in the same run or in any later run on the snapshot
\* directory.
C5_AppendOnly ==
    [][\A n \in DOMAIN ckpt : n \in DOMAIN ckpt' /\ ckpt'[n] = ckpt[n]]_vars

\* The checkpoints a run has written so far are those of the epochs it
\* completed, each still holding what was saved at the end of its epoch.
C5_RunKeepsItsCheckpoints ==
    InRun =>
        /\ checkpoints_written = current_epoch - args.current_epoch
        /\ \A n \in (args.current_epoch + 1)..current_epoch :
              /\ n \in Files
              /\ ckpt[n].epoch = n
              /\ ckpt[n].global_counter
                    = args.global_counter + (n - args.current_epoch) * steps_per_epoch
              /\ ckpt[n].state_dict
                    = (weights - optimizer_steps) + (n - args.current_epoch) * steps_per_epoch
              /\ ckpt[n].optimizer.updates
                    = StartUpdates + (n - args.current_epoch) * steps_per_epoch

\* A step that changes the snapshot directory is the end of an epoch: it
\* writes epoch_<N>.pt for the epoch N just completed, with the epoch
\* cursor, the global counter, the weights and the optimizer state of that
\* moment, and touches no other file; no step deletes a file.
C5_SaveStep ==
    /\ \A n \in DOMAIN ckpt : n \in DOMAIN ckpt'
    /\ (pc = "batch" /\ pc' = "epoch") =>
          /\ current_epoch' \in DOMAIN ckpt'
          /\ ckpt'[current_epoch'] = [epoch |-> current_epoch + 1,
                                       global_counter |-> global_counter,
                                       state_dict |-> weights,
                                       optimizer |-> optimizer]
    /\ \A n \in DOMAIN ckpt' :
          (n \notin DOMAIN ckpt \/ ckpt'[n] # ckpt[n]) =>
              /\ pc = "batch" /\ pc' = "epoch"
              /\ n = current_epoch + 1
              /\ n > args.current_epoch

\* C5 as amended: every completed epoch N is saved to epoch_<N>.pt with
\* (N, global_counter, weights, optimizer state); no file is ever deleted;
\* a run writes each file once and keeps what it wrote; the only file a
\* step replaces is the epoch_<N>.pt of the epoch just completed.
C5_SavedPerEpoch ==
    /\ []C5_RunKeepsItsCheckpoints
    /\ [][C5_SaveStep]_vars

\* A second run has completed epoch 1 again and replaced the epoch_1.pt of
\* the first run, next to the first run's epoch_2.pt.
C5_Witness ==
    /\ runs = 2
    /\ pc = "done"
    /\ checkpoints_written = 1
    /\ Files = {1, 2}
    /\ ckpt[1].global_counter = 1007
    /\ ckpt[2].global_counter = 2000

\* ---- C6 -----------------------------------------------------------------
\* C6 as stated: in a run that starts past epoch 0 (resumed from a
\* checkpoint or by override) the seed given to the monitoring sink equals
\* the global_counter value the run's events are keyed from.
C6_SeedEqualsCounter ==
    (InRun /\ args.current_epoch > 0) => writer.purge_step = args.global_counter

\* C6 as amended: the seed is steps_per_epoch * starting epoch; within a run
\* the events are keyed by strictly increasing global_counter values from
\* the starting counter on; and the seed equals the starting counter when
\* the run starts with global_counter = steps_per_epoch * current_epoch, in
\* which case every checkpoint it writes has that property again.
C6_SeedAndKeys ==
    InRun =>
        /\ writer.purge_step = steps_per_epoch * args.current_epoch
        /\ writer.count >= 1 =>
              /\ writer.last_step >= args.global_counter
              /\ writer.last_step < global_counter
              /\ writer.last_step % samples_interval = 0
        /\ writer.count >= 2 => writer.prev_step < writer.last_step
        /\ args.global_counter = steps_per_epoch * args.current_epoch =>
              /\ writer.purge_step = args.global_counter
              /\ writer.count >= 1 => writer.last_step >= writer.purge_step
              /\ \A n \in (args.current_epoch + 1)..current_epoch :
                    ckpt[n].global_counter = steps_per_epoch * ckpt[n].epoch

\* A run resumed from epoch_1.pt of a run of 1000-batch epochs from (0, 0)
\* is seeded with 1000, counts from 1000 and has logged events.
C6_Witness ==
    /\ runs = 2
    /\ pc = "batch"
    /\ args.resume = "True"
    /\ args.current_epoch = 1
    /\ args.global_counter = 1000
    /\ steps_per_epoch = 1000
    /\ writer.purge_step = 1000
    /\ writer.count >= 2

\* ---- C7 -----------------------------------------------------------------
\* C7 as stated: every run of train(), a resumed run that finds training
\* complete included, has appended exactly one dump to train_record.json.
C7_OneDumpPerRun ==
    train_record = runs

\* C7 as amended: the start of a run appends exactly one dump, before any
\* batch, unless resume is requested and the restored epoch equals the
\* total, when it appends nothing; no other step changes the file, and the
\* file is never truncated.
C7_AppendAtStart ==
    [][IF runs' # runs
       THEN /\ optimizer_steps' = 0
            /\ train_record' = train_record +
                  (IF args'.resume = "True" /\ args'.current_epoch = args'.epoch
                   THEN 0 ELSE 1)
       ELSE train_record' = train_record]_vars

\* The first run appended its dump; the second, resumed from epoch_1.pt with
\* a total of 1, found training complete and appended nothing.
C7_Witness ==
    /\ runs = 2
    /\ pc = "finished"
    /\ train_record = 1
    /\ args.global_counter = 1000

====
